---- MODULE Spec2Model ----
(***************************************************************************)
(* Model of vaeseq/vae_module.py: VAECore.evaluate, VAECore.generate and   *)
(* the module-level helper _average_runs.                                  *)
(*                                                                         *)
(* The class is stateless apart from its hyperparameters, so the state of  *)
(* the model is the current call (operation and arguments), its result,    *)
(* and a record of every call the operation made to its collaborators      *)
(* (self.initial_state, Context.initial_state, util and tf), in order.     *)
(*                                                                         *)
(* Python values are modelled as follows.                                  *)
(*   None            the empty tuple <<>>; a present optional value v is   *)
(*                   the one-element tuple <<v>>                           *)
(*   a tensor        [kind |-> "tensor", id, batch, scalar]                *)
(*   a Python tuple  [kind |-> "tuple", items |-> <<...>>]                 *)
(*   a state         [kind |-> "state", origin, batch, val]                *)
(*   a cell          the tuple of wrapper names applied, innermost first   *)
(*   a float32       the rational <<numerator, denominator>> it denotes,   *)
(*                   in lowest terms; arithmetic rounds to 24 significant  *)
(*                   bits, ties to even                                    *)
(***************************************************************************)
EXTENDS Integers, Sequences, FiniteSets, TLC

VARIABLES
    pc,          \* "idle" | "done": position of the caller
    self,        \* the VAECore: [hparams, random]
    op,          \* name of the operation called last
    args,        \* its arguments
    outcome,     \* "none" | "ok" | "ValueError"
    result,      \* <<>> or <<returned value>>
    world        \* collaborator calls made by the operation, and its environment

vars == <<pc, self, op, args, outcome, result, world>>

\* ---------------------------------------------------------------- bounds
MaxBatch == 3      \* batch sizes range over 1..MaxBatch
MaxRuns  == 3      \* samples / num_runs range over 1..MaxRuns
MaxNoise == 1      \* randomness drawn by a stochastic cell in a run, 0..MaxNoise
SeqLen   == 2      \* time extent of a sequence, and largest sequence_size
MaxId    == 1      \* tensor contents are identified by 0..MaxId

\* ---------------------------------------------------------------- values
None == <<>>
Some(v) == <<v>>
Opt(S) == {None} \cup {Some(v) : v \in S}

Batch == 1..MaxBatch

Tensor(id, batch, scalar) ==
    [kind |-> "tensor", id |-> id, batch |-> batch, scalar |-> scalar]

Tuple(items) == [kind |-> "tuple", items |-> items]

State(origin, batch, val) ==
    [kind |-> "state", origin |-> origin, batch |-> batch, val |-> val]

\* A user-defined Context.  fixed is the batch dimension its state structure
\* carries whatever batch size is requested, or None when the state follows
\* the requested batch size.
Context(id, fixed) == [kind |-> "Context", id |-> id, fixed |-> fixed]

\* --------------------------------------------------------------- float32
\* dtype=tf.float32.  The values that occur are at least 1, so each is a
\* whole number of quanta of 2^-23, the spacing of float32 between 1 and 2;
\* arithmetic is done on quanta.
Quantum == 2^23

RECURSIVE Gcd(_, _)
Gcd(a, b) == IF b = 0 THEN a ELSE Gcd(b, a % b)

Rat(n, d) == LET g == Gcd(n, d) IN IF g = 0 THEN <<0, 1>> ELSE <<n \div g, d \div g>>

\* Quanta of a float32 value, and the value of a number of quanta.
ToQuanta(x) == x[1] * (Quantum \div x[2])
FromQuanta(q) == Rat(q, Quantum)

\* Spacing, in quanta, of the float32 values around q quanta.
RECURSIVE Spacing(_)
Spacing(q) == IF q < 2 * Quantum THEN 1 ELSE 2 * Spacing(q \div 2)

\* num/den quanta rounded to the nearest float32, ties to even.
RoundDiv32(num, den) ==
    LET g == Spacing(num \div den)
        unit == g * den
        k == num \div unit
        r == num % unit
    IN  IF 2 * r > unit \/ (2 * r = unit /\ k % 2 = 1) THEN (k + 1) * g ELSE k * g

Round32(q) == RoundDiv32(q, 1)

\* float32 sum of a sequence of quanta, accumulated left to right.
RECURSIVE Sum32(_, _)
Sum32(acc, qs) == IF qs = <<>> THEN acc ELSE Sum32(Round32(acc + Head(qs)), Tail(qs))

\* ------------------------------------------------------ the world record
\* trace        names of the collaborator calls, in call order
\* core_calls   arguments of the calls to self.initial_state
\* ctx_calls    [ctx, batch_size] of the calls to Context.initial_state
\* constants    Constant contexts constructed
\* chains       Chain contexts constructed
\* drive_calls  calls to Context.drive_rnn
\* rnn_calls    calls to tf.nn.dynamic_rnn, each with the output it returned
\* mean_calls   arguments of the calls to tf.reduce_mean
\* thunk_calls  number of invocations of make_initial_state
\* rnd          environment: rnd[k] is the randomness drawn by the k-th
\*              call of the driver
\* mode         environment: how the TensorFlow build runs tf.map_fn,
\*              "eager" (fn called for every element) or "graph" (fn called
\*              once, to build the loop body)
EmptyWorld(rnd, mode) ==
    [trace |-> <<>>, core_calls |-> <<>>, ctx_calls |-> <<>>,
     constants |-> <<>>, chains |-> <<>>, drive_calls |-> <<>>,
     rnn_calls |-> <<>>, mean_calls |-> <<>>, thunk_calls |-> 0,
     rnd |-> rnd, mode |-> mode]

Modes == {"eager", "graph"}

Log(w, name) == [w EXCEPT !.trace = Append(@, name)]

Ret(w, v) == [w |-> w, v |-> v]

\* ------------------------------------------------- external collaborators
\* nest.flatten: the tensors of a nested structure, left to right.
RECURSIVE Flatten(_)
RECURSIVE FlattenAll(_)
Flatten(x) == IF x.kind = "tuple" THEN FlattenAll(x.items) ELSE <<x>>
FlattenAll(xs) == IF xs = <<>> THEN <<>> ELSE Flatten(Head(xs)) \o FlattenAll(Tail(xs))

\* util.batch_size_from_nested_tensors: the batch dimension of a structure.
batch_size_from_nested_tensors(w, x) ==
    Ret(Log(w, "util.batch_size_from_nested_tensors"), Flatten(x)[1].batch)

\* util.batch_size(hparams), util.sequence_size(hparams)
batch_size(w, hparams) == Ret(Log(w, "util.batch_size"), hparams.batch_size)
sequence_size(w, hparams) == Ret(Log(w, "util.sequence_size"), hparams.sequence_size)

\* util.use_recorded_state_rnn(cell), util.state_recording_rnn(cell)
use_recorded_state_rnn(w, cell) ==
    Ret(Log(w, "util.use_recorded_state_rnn"), Append(cell, "use_recorded_state_rnn"))
state_recording_rnn(w, cell) ==
    Ret(Log(w, "util.state_recording_rnn"), Append(cell, "state_recording_rnn"))

\* util.add_support_for_scalar_rnn_inputs(cell, inputs): scalar per-step
\* inputs are given a trailing axis and the cell is wrapped to drop it again.
RECURSIVE ExpandScalars(_)
RECURSIVE ExpandScalarsAll(_)
ExpandScalars(x) ==
    IF x.kind = "tuple" THEN Tuple(ExpandScalarsAll(x.items))
    ELSE [x EXCEPT !.scalar = FALSE]
ExpandScalarsAll(xs) ==
    IF xs = <<>> THEN <<>> ELSE <<ExpandScalars(Head(xs))>> \o ExpandScalarsAll(Tail(xs))

add_support_for_scalar_rnn_inputs(w, cell, inputs) ==
    Ret(Log(w, "util.add_support_for_scalar_rnn_inputs"),
        [cell |-> Append(cell, "add_support_for_scalar_rnn_inputs"),
         inputs |-> ExpandScalars(inputs)])

\* self.initial_state(batch_size) of the DistCore: a state of the requested
\* batch size; a core with a random initial state returns a new value on
\* every call.
initial_state(w, core, b) ==
    LET k == Len(w.core_calls) + 1 IN
    Ret([Log(w, "self.initial_state") EXCEPT !.core_calls = Append(@, b)],
        State("core", b, IF core.random THEN k ELSE 0))

\* Context.initial_state(batch_size): a state of the context's own batch
\* dimension when its structure fixes one, else of the requested batch size.
CtxName(ctx) == IF ctx.kind = "Constant" THEN ctx.name ELSE ctx.id

ctx_initial_state(w, ctx, b) ==
    Ret([Log(w, "Context.initial_state")
            EXCEPT !.ctx_calls = Append(@, [ctx |-> ctx, batch_size |-> b])],
        State(CtxName(ctx),
              IF ctx.kind = "Context" /\ ctx.fixed # None THEN ctx.fixed[1] ELSE b,
              0))

\* context_mod.Constant(value, name="inputs")
Constant(w, value) ==
    LET c == [kind |-> "Constant", value |-> value, name |-> "inputs"] IN
    Ret([Log(w, "Constant") EXCEPT !.constants = Append(@, c)], c)

\* context_mod.Chain(contexts)
Chain(w, contexts) ==
    LET c == [kind |-> "Chain", contexts |-> contexts] IN
    Ret([Log(w, "Chain") EXCEPT !.chains = Append(@, c)], c)

\* Context.drive_rnn(cell, sequence_size, initial_state, cell_initial_state,
\* cell_output_dtype, cell_output_observations): the call is recorded; the
\* value returned stands for what that call generates.
drive_rnn(w, ctx, cell, seq_size, init, cell_init, dtype, observations) ==
    LET c == [context |-> ctx, cell |-> cell, sequence_size |-> seq_size,
              initial_state |-> init, cell_initial_state |-> cell_init,
              cell_output_dtype |-> dtype,
              cell_output_observations |-> observations] IN
    Ret([Log(w, "drive_rnn") EXCEPT !.drive_calls = Append(@, c)],
        [kind |-> "generated", by |-> c])

\* tf.nn.dynamic_rnn(cell, inputs, initial_state, dtype)[0]: the per-step
\* float32 outputs of one run.  They depend on the inputs, on the initial
\* state and on the randomness the cell draws in this run; a unit of
\* randomness moves an output by NoiseStep quanta, which is not a whole
\* number.
NoiseStep == Quantum + 4

RECURSIVE IdSum(_)
IdSum(ts) == IF ts = <<>> THEN 0 ELSE Head(ts).id + IdSum(Tail(ts))

\* The outputs of a run from state init in which the cell draws draw.
RunOutput(inputs, init, draw) ==
    LET base == IdSum(Flatten(inputs)) + init.val
    IN  [t \in 1..SeqLen |->
            FromQuanta(Round32((base + t) * Quantum + draw * NoiseStep))]

dynamic_rnn(w, cell, inputs, init) ==
    LET k == Len(w.rnn_calls) + 1
        out == RunOutput(inputs, init, w.rnd[k])
    IN  Ret([Log(w, "tf.nn.dynamic_rnn")
                EXCEPT !.rnn_calls = Append(@, [cell |-> cell, inputs |-> inputs,
                                                initial_state |-> init,
                                                output |-> out])],
            out)

\* tf.reduce_mean(runs, axis=0): elementwise float32 mean over the leading
\* axis, the float32 sum divided by the number of runs.
reduce_mean(w, runs) ==
    Ret([Log(w, "tf.reduce_mean") EXCEPT !.mean_calls = Append(@, runs)],
        [t \in 1..SeqLen |->
            LET s == Sum32(0, [i \in 1..Len(runs) |-> ToQuanta(runs[i][t])])
            IN  FromQuanta(RoundDiv32(s, Len(runs)))])

\* ------------------------------------------------------------ evaluate
\* The closure _make_initial_state of evaluate: it captures self,
\* initial_state and observed.
_make_initial_state(w, core, initial_state_arg, observed) ==
    IF initial_state_arg # None
    THEN Ret(w, initial_state_arg[1])
    ELSE LET b == batch_size_from_nested_tensors(w, observed)
         IN  initial_state(b.w, core, b.v)

\* A zero-argument callable is either the closure above, with what it
\* captured, or a recorder that returns a distinct value on every call.
Closure(core, initial_state_arg, observed) ==
    [fn |-> "_make_initial_state", self |-> core,
     initial_state |-> initial_state_arg, observed |-> observed]

Recorder == [fn |-> "recorder"]

CallThunk(w, f) ==
    LET w1 == [Log(w, "make_initial_state") EXCEPT !.thunk_calls = @ + 1] IN
    IF f.fn = "_make_initial_state"
    THEN _make_initial_state(w1, f.self, f.initial_state, f.observed)
    ELSE Ret(w1, State("recorder", 1, w1.thunk_calls))

\* _average_runs._run: one run of the driver from a newly made initial state.
_run(w, cell, inputs, make_initial_state) ==
    LET s == CallThunk(w, make_initial_state)
    IN  dynamic_rnn(s.w, cell, inputs, s.v)

\* tf.map_fn(_run, elems) over the n elements unpacked from elems along its
\* first axis, the results stacked along a new axis.  An eager build calls
\* _run for every element.  A graph-mode build calls _run once, to build the
\* body of the loop, so every call _run makes is made once; running the
\* loop then executes that body for every element: the cell draws anew in
\* every iteration, and so does an initial state that the body makes from
\* the random operations of the core, while a value handed in from outside
\* the body (the caller's initial_state, a recorded Python value) is the
\* same in every iteration.
RECURSIVE map_each(_, _, _, _, _)
map_each(w, n, cell, inputs, make_initial_state) ==
    IF n = 0 THEN Ret(w, <<>>)
    ELSE LET r == _run(w, cell, inputs, make_initial_state)
             rest == map_each(r.w, n - 1, cell, inputs, make_initial_state)
         IN  Ret(rest.w, <<r.v>> \o rest.v)

\* The state iteration i of the loop body starts from, init being the state
\* make_initial_state returned while the body was built.
IterationState(make_initial_state, init, i) ==
    IF /\ make_initial_state.fn = "_make_initial_state"
       /\ make_initial_state.initial_state = None
       /\ make_initial_state.self.random
    THEN [init EXCEPT !.val = i]
    ELSE init

map_fn(w, n, cell, inputs, make_initial_state) ==
    IF w.mode = "graph"
    THEN LET r == _run(w, cell, inputs, make_initial_state)
             built == r.w.rnn_calls[Len(r.w.rnn_calls)]
         IN  Ret(r.w, [i \in 1..n |->
                          RunOutput(built.inputs,
                                    IterationState(make_initial_state,
                                                   built.initial_state, i),
                                    w.rnd[i])])
    ELSE map_each(w, n, cell, inputs, make_initial_state)

\* Variant: the runs are summed instead of averaged.
_average_runs_sum(w, num_runs, cell, inputs, make_initial_state) ==
    IF num_runs = 1
    THEN _run(w, cell, inputs, make_initial_state)
    ELSE LET runs == map_fn(Log(Log(w, "tf.zeros"), "tf.map_fn"),
                            num_runs, cell, inputs, make_initial_state)
             m == reduce_mean(runs.w, runs.v)
         IN  Ret(m.w, [t \in 1..SeqLen |-> Rat(m.v[t][1] * num_runs, m.v[t][2])])

\* Variant: one run too few is mapped.
_average_runs_dropped(w, num_runs, cell, inputs, make_initial_state) ==
    IF num_runs = 1
    THEN _run(w, cell, inputs, make_initial_state)
    ELSE LET runs == map_fn(Log(Log(w, "tf.zeros"), "tf.map_fn"),
                            num_runs - 1, cell, inputs, make_initial_state)
         IN  reduce_mean(runs.w, runs.v)

\* Variant: no special case for a single run.
_average_runs_always_map(w, num_runs, cell, inputs, make_initial_state) ==
    LET runs == map_fn(Log(Log(w, "tf.zeros"), "tf.map_fn"),
                       num_runs, cell, inputs, make_initial_state)
    IN  reduce_mean(runs.w, runs.v)

\* Variant: the initial state is made once, before the runs, and shared.
RECURSIVE runs_from(_, _, _, _, _)
runs_from(w, n, cell, inputs, init) ==
    IF n = 0 THEN Ret(w, <<>>)
    ELSE LET r == dynamic_rnn(w, cell, inputs, init)
             rest == runs_from(r.w, n - 1, cell, inputs, init)
         IN  Ret(rest.w, <<r.v>> \o rest.v)

_average_runs_hoisted(w, num_runs, cell, inputs, make_initial_state) ==
    LET s == CallThunk(w, make_initial_state) IN
    IF num_runs = 1
    THEN dynamic_rnn(s.w, cell, inputs, s.v)
    ELSE LET runs == runs_from(Log(Log(s.w, "tf.zeros"), "tf.map_fn"),
                               num_runs, cell, inputs, s.v)
         IN  reduce_mean(runs.w, runs.v)

_average_runs(w, num_runs, cell, inputs, make_initial_state) ==
    IF num_runs = 1
    THEN _run(w, cell, inputs, make_initial_state)
    ELSE LET runs == map_fn(Log(Log(w, "tf.zeros"), "tf.map_fn"),
                            num_runs, cell, inputs, make_initial_state)
         IN  reduce_mean(runs.w, runs.v)

\* Variant: latents and initial_state are not checked against each other.
evaluate_unchecked(w, core, contexts, observed, latents, initial_state_arg, samples) ==
    LET inputs0 == Tuple(<<contexts, observed>>)
        cell0 == <<"log_probs">>
        rec == IF latents # None
               THEN use_recorded_state_rnn(w, cell0)
               ELSE Ret(w, cell0)
        inputs1 == IF latents # None
                   THEN Tuple(<<inputs0, latents[1]>>)
                   ELSE inputs0
        sup == add_support_for_scalar_rnn_inputs(rec.w, rec.v, inputs1)
        r == _average_runs(sup.w, samples, sup.v.cell, sup.v.inputs,
                           Closure(core, initial_state_arg, observed))
    IN  [w |-> r.w, outcome |-> "ok", v |-> Some(r.v)]

\* VAECore.evaluate.  The value returned is [w, outcome, v].
evaluate(w, core, contexts, observed, latents, initial_state_arg, samples) ==
    LET inputs0 == Tuple(<<contexts, observed>>)
        cell0 == <<"log_probs">>
    IN
    IF latents # None /\ initial_state_arg # None
    THEN [w |-> w, outcome |-> "ValueError", v |-> None]
    ELSE LET rec == IF latents # None
                    THEN use_recorded_state_rnn(w, cell0)
                    ELSE Ret(w, cell0)
             inputs1 == IF latents # None
                        THEN Tuple(<<inputs0, latents[1]>>)
                        ELSE inputs0
             sup == add_support_for_scalar_rnn_inputs(rec.w, rec.v, inputs1)
             r == _average_runs(sup.w, samples, sup.v.cell, sup.v.inputs,
                                Closure(core, initial_state_arg, observed))
         IN  [w |-> r.w, outcome |-> "ok", v |-> Some(r.v)]

\* ------------------------------------------------------------ generate
\* isinstance(x, context_mod.Context)
IsContext(x) == x.kind \in {"Context", "Constant", "Chain"}

\* Lines 62-63: sequence_size defaults to the hyperparameter.
default_sequence_size(w, core, sequence_size_arg) ==
    IF sequence_size_arg = None
    THEN sequence_size(w, core.hparams)
    ELSE Ret(w, sequence_size_arg[1])

\* Variant: an absent inputs value is wrapped as well.
wrap_inputs_none(w, inputs_arg) ==
    IF inputs_arg = None
    THEN LET c == Constant(w, inputs_arg) IN Ret(c.w, Some(c.v))
    ELSE IF ~IsContext(inputs_arg[1])
         THEN LET c == Constant(w, inputs_arg[1]) IN Ret(c.w, Some(c.v))
         ELSE Ret(w, inputs_arg)

\* Lines 65-67: a raw (non-Context) inputs value is wrapped as a Constant.
wrap_inputs(w, inputs_arg) ==
    IF inputs_arg # None /\ ~IsContext(inputs_arg[1])
    THEN LET c == Constant(w, inputs_arg[1]) IN Ret(c.w, Some(c.v))
    ELSE Ret(w, inputs_arg)

\* Lines 70-72: infer_batch_size starts as batch_size, or as the
\* hyperparameter default when batch_size is None.
infer_batch_size(w, core, batch_size_arg) ==
    IF batch_size_arg = None
    THEN batch_size(w, core.hparams)
    ELSE Ret(w, batch_size_arg[1])

\* Variant: the batch size is not re-derived from the computed state.
create_inputs_initial_state_norefine(w, inputs, batch_size_arg, ibs, inputs_initial_state_arg) ==
    IF inputs # None /\ inputs_initial_state_arg = None
    THEN LET st == ctx_initial_state(w, inputs[1], ibs)
         IN  [w |-> st.w, v |-> Some(st.v), ibs |-> ibs]
    ELSE [w |-> w, v |-> inputs_initial_state_arg, ibs |-> ibs]

\* Variant: the batch size is re-derived from a supplied state as well.
create_inputs_initial_state_adopting(w, inputs, batch_size_arg, ibs, inputs_initial_state_arg) ==
    LET st == IF inputs # None /\ inputs_initial_state_arg = None
              THEN LET c == ctx_initial_state(w, inputs[1], ibs) IN Ret(c.w, Some(c.v))
              ELSE Ret(w, inputs_initial_state_arg)
    IN  IF batch_size_arg = None /\ st.v # None
        THEN LET b == batch_size_from_nested_tensors(st.w, st.v[1])
             IN  [w |-> b.w, v |-> st.v, ibs |-> b.v]
        ELSE [w |-> st.w, v |-> st.v, ibs |-> ibs]

\* Lines 73-77: the inputs initial state, and infer_batch_size after it.
create_inputs_initial_state(w, inputs, batch_size_arg, ibs, inputs_initial_state_arg) ==
    IF inputs # None /\ inputs_initial_state_arg = None
    THEN LET st == ctx_initial_state(w, inputs[1], ibs) IN
         IF batch_size_arg = None
         THEN LET b == batch_size_from_nested_tensors(st.w, st.v)
              IN  [w |-> b.w, v |-> Some(st.v), ibs |-> b.v]
         ELSE [w |-> st.w, v |-> Some(st.v), ibs |-> ibs]
    ELSE [w |-> w, v |-> inputs_initial_state_arg, ibs |-> ibs]

\* Variant: the batch size is re-derived even when batch_size was given.
create_context_initial_state_refining(w, context, batch_size_arg, ibs, context_initial_state_arg) ==
    IF context_initial_state_arg = None
    THEN LET st == ctx_initial_state(w, context, ibs)
             b == batch_size_from_nested_tensors(st.w, st.v)
         IN  [w |-> b.w, v |-> st.v, ibs |-> b.v]
    ELSE [w |-> w, v |-> context_initial_state_arg[1], ibs |-> ibs]

\* Lines 78-82: the context initial state, and infer_batch_size after it.
create_context_initial_state(w, context, batch_size_arg, ibs, context_initial_state_arg) ==
    IF context_initial_state_arg = None
    THEN LET st == ctx_initial_state(w, context, ibs) IN
         IF batch_size_arg = None
         THEN LET b == batch_size_from_nested_tensors(st.w, st.v)
              IN  [w |-> b.w, v |-> st.v, ibs |-> b.v]
         ELSE [w |-> st.w, v |-> st.v, ibs |-> ibs]
    ELSE [w |-> w, v |-> context_initial_state_arg[1], ibs |-> ibs]

\* Lines 83-84: the core's own initial state.
create_initial_state(w, core, ibs, initial_state_arg) ==
    IF initial_state_arg = None
    THEN initial_state(w, core, ibs)
    ELSE Ret(w, initial_state_arg[1])

\* Variant: the context is chained in front of the inputs.
chain_inputs_swapped(w, inputs, context, inputs_initial_state, context_initial_state) ==
    IF inputs # None
    THEN LET c == Chain(w, <<context, inputs[1]>>)
         IN  [w |-> c.w, context |-> c.v,
              context_initial_state |->
                  Tuple(<<inputs_initial_state[1], context_initial_state>>)]
    ELSE [w |-> w, context |-> context,
          context_initial_state |-> context_initial_state]

\* Lines 86-90: inputs, when present, are chained in front of the context
\* and the two initial states are paired in the same order.
chain_inputs(w, inputs, context, inputs_initial_state, context_initial_state) ==
    IF inputs # None
    THEN LET c == Chain(w, <<inputs[1], context>>)
         IN  [w |-> c.w, context |-> c.v,
              context_initial_state |->
                  Tuple(<<inputs_initial_state[1], context_initial_state>>)]
    ELSE [w |-> w, context |-> context,
          context_initial_state |-> context_initial_state]

\* VAECore.generate.  The value returned is [w, outcome, v].
generate(w, core, inputs_arg, context, batch_size_arg, sequence_size_arg, initial_state_arg, inputs_initial_state_arg, context_initial_state_arg) ==
    LET seq == default_sequence_size(w, core, sequence_size_arg)
        inp == wrap_inputs(seq.w, inputs_arg)
        ibs == infer_batch_size(inp.w, core, batch_size_arg)
        iis == create_inputs_initial_state(ibs.w, inp.v, batch_size_arg, ibs.v,
                                           inputs_initial_state_arg)
        cis == create_context_initial_state(iis.w, context, batch_size_arg, iis.ibs,
                                            context_initial_state_arg)
        ist == create_initial_state(cis.w, core, cis.ibs, initial_state_arg)
        chn == chain_inputs(ist.w, inp.v, context, iis.v, cis.v)
        cell == state_recording_rnn(chn.w, <<"samples">>)
        r == drive_rnn(cell.w, chn.context, cell.v, seq.v,
                       chn.context_initial_state, ist.v,
                       <<"event_dtype", "state_dtype">>, "out[0]")
    IN  [w |-> r.w, outcome |-> "ok", v |-> Some(r.v)]

\* ------------------------------------------------------------- the calls
Ids == 0..MaxId
Noise == [1..MaxRuns -> 0..MaxNoise]

\* States a caller can hand in; origin names the argument they came in by.
CallerStates(origin) == {State(origin, b, 0) : b \in Batch}

InputsValues ==
    {None} \cup {Some(Tensor(0, 1, FALSE))}
           \cup {Some(Context("inputs_ctx", f)) : f \in Opt(Batch)}

Init ==
    /\ pc = "idle"
    /\ self \in [hparams : [batch_size : Batch, sequence_size : {SeqLen}],
                  random : BOOLEAN]
    /\ op = "none"
    /\ args = <<>>
    /\ outcome = "none"
    /\ result = None
    /\ world = EmptyWorld(<<>>, "eager")

Finish(name, a, r) ==
    /\ pc' = "done"
    /\ op' = name
    /\ args' = a
    /\ outcome' = r.outcome
    /\ result' = r.v
    /\ world' = r.w
    /\ UNCHANGED self

Evaluate ==
    /\ pc = "idle"
    /\ \E contexts \in {Tensor(i, 1, s) : i \in Ids, s \in BOOLEAN},
          observed \in {Tensor(0, b, FALSE) : b \in Batch},
          latents \in Opt({Tensor(1, 1, FALSE)}),
          init \in Opt(CallerStates("initial_state")),
          samples \in 1..MaxRuns,
          rnd \in Noise,
          mode \in Modes :
        Finish("evaluate",
               [contexts |-> contexts, observed |-> observed, latents |-> latents,
                initial_state |-> init, samples |-> samples],
               evaluate(EmptyWorld(rnd, mode), self, contexts, observed, latents,
                        init, samples))

Generate ==
    /\ pc = "idle"
    /\ \E inputs \in InputsValues,
          context \in {Context("context", f) : f \in Opt(Batch)},
          bs \in Opt(Batch),
          seq \in Opt(1..SeqLen),
          init \in Opt(CallerStates("initial_state")),
          iinit \in Opt(CallerStates("inputs_initial_state")),
          cinit \in Opt(CallerStates("context_initial_state")) :
        Finish("generate",
               [inputs |-> inputs, context |-> context, batch_size |-> bs,
                sequence_size |-> seq, initial_state |-> init,
                inputs_initial_state |-> iinit, context_initial_state |-> cinit],
               generate(EmptyWorld(<<>>, "eager"), self, inputs, context, bs, seq,
                        init, iinit, cinit))

AverageRuns ==
    /\ pc = "idle"
    /\ \E num_runs \in 1..MaxRuns,
          inputs \in {Tensor(i, 1, FALSE) : i \in Ids},
          rnd \in Noise,
          mode \in Modes :
        LET r == _average_runs(EmptyWorld(rnd, mode), num_runs, <<"cell">>, inputs, Recorder)
        IN  Finish("_average_runs",
                   [num_runs |-> num_runs, cell |-> <<"cell">>, inputs |-> inputs,
                    make_initial_state |-> Recorder],
                   [w |-> r.w, outcome |-> "ok", v |-> Some(r.v)])

\* The call returns; the core is ready for the next call.
Return ==
    /\ pc = "done"
    /\ pc' = "idle"
    /\ op' = "none"
    /\ args' = <<>>
    /\ outcome' = "none"
    /\ result' = None
    /\ world' = EmptyWorld(<<>>, "eager")
    /\ UNCHANGED self

Next == Evaluate \/ Generate \/ AverageRuns \/ Return

Spec == Init /\ [][Next]_vars

\* ============================================================== claims
Done(name) == pc = "done" /\ op = name

Occurs(name) == \E i \in 1..Len(world.trace) : world.trace[i] = name

RECURSIVE Repeat(_, _)
Repeat(block, n) == IF n = 0 THEN <<>> ELSE block \o Repeat(block, n - 1)

Abs(x) == IF x < 0 THEN -x ELSE x

\* Exact sum, in quanta, of step t of a sequence of run outputs.
RECURSIVE ExactSum(_, _)
ExactSum(runs, t) ==
    IF runs = <<>> THEN 0 ELSE ToQuanta(Head(runs)[t]) + ExactSum(Tail(runs), t)

Outputs(calls) == [i \in 1..Len(calls) |-> calls[i].output]

\* n * q / 2^24, rounded down: the largest error n float32 roundings can
\* make on a value of about q quanta.
Tol(n, q) == (n * (q \div 2^20)) \div 16

\* Number of times tf.map_fn, or _average_runs itself for a single run,
\* calls _run.
RunCalls(n) == IF n > 1 /\ world.mode = "graph" THEN 1 ELSE n

BothGiven == args.latents # None /\ args.initial_state # None

\* C1: evaluate called with both latents and initial_state ends in the
\* ValueError, whatever contexts, observed and samples are, and it has then
\* resolved no initial state and invoked no driver.
C1_BothRaise ==
    (Done("evaluate") /\ BothGiven) =>
        /\ outcome = "ValueError"
        /\ result = None
        /\ world.thunk_calls = 0
        /\ world.core_calls = <<>>
        /\ world.rnn_calls = <<>>
        /\ world.trace = <<>>

C1_Witness ==
    /\ Done("evaluate") /\ BothGiven
    /\ outcome = "ValueError"
    /\ args.samples = MaxRuns
    /\ args.contexts.scalar

\* C2 as stated: _average_runs with N > 1 invokes make_initial_state exactly
\* N times, run i is driven from the value returned by the i-th invocation,
\* and the value returned is the arithmetic mean of the N per-run outputs.
C2_AsStated ==
    (Done("_average_runs") /\ args.num_runs > 1) =>
        LET N == args.num_runs IN
        /\ world.thunk_calls = N
        /\ Len(world.rnn_calls) = N
        /\ \A i \in 1..N :
              world.rnn_calls[i].initial_state = State("recorder", 1, i)
        /\ \A t \in 1..SeqLen :
              ToQuanta(result[1][t]) * N = ExactSum(Outputs(world.rnn_calls), t)

\* C2 (amended): _average_runs with N > 1 maps _run over N elements and
\* returns tf.reduce_mean of the N stacked outputs, their mean in float32,
\* which is the exact mean up to N + 1 roundings.  make_initial_state is
\* invoked once in every call of _run, which drives from the value that
\* invocation returned: N times when tf.map_fn calls _run for every element,
\* once when it calls _run once to build the loop; the N runs of that loop
\* are all driven from the one state built, the cell drawing anew in each.
C2_MeanOfRuns ==
    (Done("_average_runs") /\ args.num_runs > 1) =>
        LET N == args.num_runs
            K == RunCalls(N)
        IN
        /\ world.thunk_calls = K
        /\ Len(world.rnn_calls) = K
        /\ \A i \in 1..K :
              /\ world.rnn_calls[i].initial_state = State("recorder", 1, i)
              /\ world.rnn_calls[i].cell = args.cell
              /\ world.rnn_calls[i].inputs = args.inputs
        /\ Len(world.mean_calls) = 1
        /\ Len(world.mean_calls[1]) = N
        /\ \A i \in 1..N :
              world.mean_calls[1][i] =
                  IF world.mode = "graph"
                  THEN RunOutput(args.inputs, State("recorder", 1, 1), world.rnd[i])
                  ELSE world.rnn_calls[i].output
        /\ result # None
        /\ \A t \in 1..SeqLen :
              LET S == ExactSum(world.mean_calls[1], t) IN
              Abs(ToQuanta(result[1][t]) * N - S) <= Tol(N + 1, S)

C2_Witness ==
    /\ Done("_average_runs") /\ args.num_runs = MaxRuns
    /\ world.mode = "eager"
    /\ world.thunk_calls = MaxRuns
    /\ world.rnn_calls[1].output # world.rnn_calls[2].output
    /\ \E t \in 1..SeqLen :
          ToQuanta(result[1][t]) * MaxRuns # ExactSum(world.mean_calls[1], t)

\* C3: _average_runs with one run invokes make_initial_state once and the
\* driver once, from the state just made, and returns that run's output as
\* it is: nothing is mapped, stacked or averaged.
C3_SingleRun ==
    (Done("_average_runs") /\ args.num_runs = 1) =>
        /\ world.thunk_calls = 1
        /\ Len(world.rnn_calls) = 1
        /\ world.rnn_calls[1] = [cell |-> args.cell, inputs |-> args.inputs,
                                  initial_state |-> State("recorder", 1, 1),
                                  output |-> result[1]]
        /\ world.trace = <<"make_initial_state", "tf.nn.dynamic_rnn">>
        /\ ~Occurs("tf.map_fn") /\ ~Occurs("tf.reduce_mean")

C3_Witness ==
    /\ Done("_average_runs") /\ args.num_runs = 1
    /\ Len(world.rnn_calls) = 1
    /\ result = Some(world.rnn_calls[1].output)
    /\ world.rnd[1] = MaxNoise

\* C6 as stated: when every run of the driver yields the same per-step
\* output, evaluate with samples=3 returns what evaluate with samples=1
\* returns for the same arguments.
SameRuns ==
    /\ Len(world.mean_calls) = 1
    /\ \A i, j \in 1..Len(world.mean_calls[1]) :
          world.mean_calls[1][i] = world.mean_calls[1][j]

OneSample ==
    evaluate(EmptyWorld(world.rnd, world.mode), self, args.contexts, args.observed,
             args.latents, args.initial_state, 1).v

C6_AsStated ==
    (Done("evaluate") /\ outcome = "ok" /\ args.samples = 3 /\ SameRuns) =>
        result = OneSample

\* C6 (amended): under the same condition the samples=3 values are the
\* float32 mean of three copies of the samples=1 values: they agree with
\* them up to the four roundings of that mean, not always bit for bit.
C6_ThreeSamplesAsOne ==
    (Done("evaluate") /\ outcome = "ok" /\ args.samples = 3 /\ SameRuns) =>
        /\ Len(world.mean_calls[1]) = 3
        /\ world.mean_calls[1][1] = OneSample[1]
        /\ \A t \in 1..SeqLen :
              LET x == ToQuanta(OneSample[1][t]) IN
              Abs(ToQuanta(result[1][t]) - x) <= Tol(4, x)

C6_Witness ==
    /\ Done("evaluate") /\ outcome = "ok" /\ args.samples = 3 /\ SameRuns
    /\ world.mode = "eager"
    /\ Len(world.rnn_calls) = 3
    /\ args.initial_state = None
    /\ result # OneSample
    /\ \E t \in 1..SeqLen : result[1][t] = OneSample[1][t]

\* C7: in an evaluate call that does not raise, every run of the driver
\* starts from the caller's initial_state when one was given
\* (self.initial_state is then never called), and otherwise from the state
\* self.initial_state(b) made for that run, b being the batch size of
\* observed; the state is resolved inside _run, after tf.map_fn has started
\* and right before the driver call of that run, never before the runs.
RunEvent(e) ==
    e \in {"tf.map_fn", "make_initial_state", "util.batch_size_from_nested_tensors",
           "self.initial_state", "tf.nn.dynamic_rnn"}

OneRun ==
    IF args.initial_state # None
    THEN <<"make_initial_state", "tf.nn.dynamic_rnn">>
    ELSE <<"make_initial_state", "util.batch_size_from_nested_tensors",
           "self.initial_state", "tf.nn.dynamic_rnn">>

C7_LazyInitialState ==
    (Done("evaluate") /\ outcome = "ok") =>
        LET N == args.samples
            K == RunCalls(N)
        IN
        /\ Len(world.rnn_calls) = K
        /\ world.thunk_calls = K
        /\ SelectSeq(world.trace, RunEvent) =
              (IF N > 1 THEN <<"tf.map_fn">> ELSE <<>>) \o Repeat(OneRun, K)
        /\ IF args.initial_state # None
           THEN /\ world.core_calls = <<>>
                /\ \A i \in 1..K :
                      world.rnn_calls[i].initial_state = args.initial_state[1]
           ELSE /\ world.core_calls = [i \in 1..K |-> args.observed.batch]
                /\ \A i \in 1..K :
                      world.rnn_calls[i].initial_state =
                          State("core", args.observed.batch,
                                IF self.random THEN i ELSE 0)

C7_Witness ==
    /\ Done("evaluate") /\ outcome = "ok"
    /\ args.initial_state = None
    /\ args.samples = MaxRuns
    /\ world.mode = "eager"
    /\ self.random
    /\ args.observed.batch # self.hparams.batch_size
    /\ Len(world.core_calls) = MaxRuns
    /\ world.rnn_calls[MaxRuns].initial_state.val = MaxRuns

\* ------------------------------------------------- claims about generate
Drive == world.drive_calls[1]

\* The inputs context generate works with: the caller's Context, or the
\* Constant wrapped around the caller's raw value.
InputsContext ==
    IF IsContext(args.inputs[1]) THEN args.inputs[1]
    ELSE [kind |-> "Constant", value |-> args.inputs[1], name |-> "inputs"]

CallsOn(ctx) == SelectSeq(world.ctx_calls, LAMBDA c : c.ctx = ctx)

\* C4: with batch_size=None, inputs present and inputs_initial_state not
\* supplied, inputs.initial_state is asked for the hyperparameter default;
\* with B the batch dimension of the state it returns, context.initial_state
\* is asked for B, and self.initial_state is asked for the batch dimension
\* of the resulting context state (for B itself when the context state was
\* supplied), so that it is B whenever the context state preserves it.
C4_BatchSizeFromInputs ==
    (/\ Done("generate") /\ args.batch_size = None
     /\ args.inputs # None /\ args.inputs_initial_state = None) =>
        LET istate == Drive.initial_state.items[1]
            cstate == Drive.initial_state.items[2]
            B == istate.batch
        IN
        /\ world.ctx_calls[1] = [ctx |-> InputsContext,
                                  batch_size |-> self.hparams.batch_size]
        /\ istate.origin = CtxName(InputsContext)
        /\ args.context_initial_state = None =>
              /\ world.ctx_calls = <<world.ctx_calls[1],
                                     [ctx |-> args.context, batch_size |-> B]>>
              /\ args.context.fixed = None => cstate.batch = B
              /\ args.initial_state = None => world.core_calls = <<cstate.batch>>
        /\ (args.context_initial_state # None /\ args.initial_state = None) =>
              world.core_calls = <<B>>
        /\ (args.initial_state = None /\ args.context.fixed = None) =>
              Drive.cell_initial_state = State("core", B, IF self.random THEN 1 ELSE 0)

C4_Witness ==
    /\ Done("generate") /\ args.batch_size = None
    /\ args.inputs # None /\ args.inputs_initial_state = None
    /\ args.context_initial_state = None /\ args.initial_state = None
    /\ args.context.fixed = None
    /\ Drive.initial_state.items[1].batch # self.hparams.batch_size
    /\ Drive.initial_state.items[2].batch = Drive.initial_state.items[1].batch
    /\ Drive.cell_initial_state.batch = Drive.initial_state.items[1].batch

\* C5: generate with inputs=None constructs no Chain and no Constant, calls
\* initial_state on no context but the caller's, and invokes drive_rnn once,
\* on the caller's context, with the plain context initial state.
C5_NoInputsNoChain ==
    (Done("generate") /\ args.inputs = None) =>
        /\ world.chains = <<>> /\ ~Occurs("Chain")
        /\ world.constants = <<>> /\ ~Occurs("Constant")
        /\ \A i \in 1..Len(world.ctx_calls) : world.ctx_calls[i].ctx = args.context
        /\ Len(world.drive_calls) = 1
        /\ Drive.context = args.context
        /\ Drive.initial_state.kind = "state"
        /\ IF args.context_initial_state # None
           THEN Drive.initial_state = args.context_initial_state[1]
           ELSE /\ Len(world.ctx_calls) = 1
                /\ Drive.initial_state.origin = "context"

C5_Witness ==
    /\ Done("generate") /\ args.inputs = None
    /\ args.inputs_initial_state # None
    /\ args.context_initial_state = None
    /\ Len(world.drive_calls) = 1
    /\ Drive.context = args.context

\* C8: generate with inputs present invokes drive_rnn on the Chain of
\* [inputs, context], with initial_state the pair (inputs initial state,
\* context initial state) and cell_initial_state the core's resolved initial
\* state; raw inputs are wrapped as a Constant, a Context is used as it is.
C8_ChainOrder ==
    (Done("generate") /\ args.inputs # None) =>
        /\ world.constants = IF IsContext(args.inputs[1]) THEN <<>> ELSE <<InputsContext>>
        /\ world.chains = <<[kind |-> "Chain",
                              contexts |-> <<InputsContext, args.context>>]>>
        /\ Len(world.drive_calls) = 1
        /\ Drive.context = world.chains[1]
        /\ Drive.initial_state.kind = "tuple"
        /\ Len(Drive.initial_state.items) = 2
        /\ IF args.inputs_initial_state # None
           THEN Drive.initial_state.items[1] = args.inputs_initial_state[1]
           ELSE Drive.initial_state.items[1].origin = CtxName(InputsContext)
        /\ IF args.context_initial_state # None
           THEN Drive.initial_state.items[2] = args.context_initial_state[1]
           ELSE Drive.initial_state.items[2].origin = "context"
        /\ IF args.initial_state # None
           THEN Drive.cell_initial_state = args.initial_state[1]
           ELSE /\ Len(world.core_calls) = 1
                /\ Drive.cell_initial_state =
                      State("core", world.core_calls[1], IF self.random THEN 1 ELSE 0)

C8_Witness ==
    /\ Done("generate") /\ args.inputs # None
    /\ ~IsContext(args.inputs[1])
    /\ world.constants # <<>>
    /\ Drive.context.kind = "Chain"
    /\ Drive.context.contexts[1].kind = "Constant"
    /\ Drive.initial_state.items[1].origin = "inputs"
    /\ Drive.initial_state.items[2].origin = "context"

\* C9: with an explicit batch_size every initial state generate computes
\* itself is requested with exactly that batch size; the batch size is never
\* re-derived from a state and the hyperparameter default is never read.
C9_ExplicitBatchSize ==
    (Done("generate") /\ args.batch_size # None) =>
        /\ \A i \in 1..Len(world.ctx_calls) :
              world.ctx_calls[i].batch_size = args.batch_size[1]
        /\ \A i \in 1..Len(world.core_calls) :
              world.core_calls[i] = args.batch_size[1]
        /\ ~Occurs("util.batch_size")
        /\ ~Occurs("util.batch_size_from_nested_tensors")

C9_Witness ==
    /\ Done("generate") /\ args.batch_size # None
    /\ args.inputs # None
    /\ Len(world.ctx_calls) = 2 /\ Len(world.core_calls) = 1
    /\ Drive.initial_state.items[1].batch # args.batch_size[1]
    /\ Drive.initial_state.items[2].batch # args.batch_size[1]
    /\ args.batch_size[1] # self.hparams.batch_size
    /\ world.core_calls[1] = args.batch_size[1]

\* C10 as stated: every caller-supplied initial state reaches drive_rnn
\* unchanged, its producer is not called, and it does not refine the batch
\* size.
SuppliedContextState ==
    args.context_initial_state # None =>
        /\ CallsOn(args.context) = <<>>
        /\ IF args.inputs # None
           THEN Drive.initial_state.items[2] = args.context_initial_state[1]
           ELSE Drive.initial_state = args.context_initial_state[1]

SuppliedCoreState ==
    args.initial_state # None =>
        /\ world.core_calls = <<>>
        /\ Drive.cell_initial_state = args.initial_state[1]

\* The batch size in force after the inputs step when the supplied states
\* are left out of account.
AfterInputs ==
    IF args.batch_size # None THEN args.batch_size[1]
    ELSE IF args.inputs # None /\ args.inputs_initial_state = None
         THEN Drive.initial_state.items[1].batch
         ELSE self.hparams.batch_size

SuppliedNeverRefine ==
    /\ (args.inputs_initial_state # None /\ args.context_initial_state = None) =>
          /\ Len(CallsOn(args.context)) = 1
          /\ CallsOn(args.context)[1].batch_size = AfterInputs
    /\ (args.context_initial_state # None /\ args.initial_state = None) =>
          world.core_calls = <<AfterInputs>>

C10_AsStated ==
    Done("generate") =>
        /\ SuppliedContextState
        /\ SuppliedCoreState
        /\ SuppliedNeverRefine
        /\ args.inputs_initial_state # None =>
              /\ Len(world.ctx_calls) = Len(CallsOn(args.context))
              /\ Drive.initial_state.kind = "tuple"
              /\ Drive.initial_state.items[1] = args.inputs_initial_state[1]

\* C10 (amended): a supplied context_initial_state or initial_state reaches
\* drive_rnn unchanged, and so does a supplied inputs_initial_state when
\* inputs is present; with inputs=None a supplied inputs_initial_state is
\* dropped.  The producer of a supplied state is not called, and a supplied
\* state never refines the batch size.
C10_SuppliedStates ==
    Done("generate") =>
        /\ SuppliedContextState
        /\ SuppliedCoreState
        /\ SuppliedNeverRefine
        /\ args.inputs_initial_state # None =>
              /\ Len(world.ctx_calls) = Len(CallsOn(args.context))
              /\ IF args.inputs # None
                 THEN /\ Drive.initial_state.kind = "tuple"
                      /\ Drive.initial_state.items[1] = args.inputs_initial_state[1]
                 ELSE Drive.initial_state.kind = "state"

C10_Witness ==
    /\ Done("generate") /\ args.batch_size = None
    /\ args.inputs # None
    /\ args.inputs_initial_state # None
    /\ args.inputs_initial_state[1].batch # self.hparams.batch_size
    /\ args.context_initial_state = None
    /\ args.initial_state # None
    /\ Drive.initial_state.items[1] = args.inputs_initial_state[1]
    /\ world.ctx_calls = <<[ctx |-> args.context,
                            batch_size |-> self.hparams.batch_size]>>
    /\ world.core_calls = <<>>

====
